---- MODULE Spec2Model ----
(***************************************************************************)
(* Model of vscode_conan_init: the _MacroDefinitions registry and the      *)
(* macro-definition part of main().                                        *)
(*                                                                         *)
(* A Python str is modelled as a sequence of code points, so that find,    *)
(* slicing and the default string ordering used by list.sort are computed  *)
(* rather than assumed.  A Python dict is modelled as the sequence of its  *)
(* items in insertion order, which is the order list(d.values()) yields.   *)
(***************************************************************************)
EXTENDS Integers, Sequences, FiniteSets, TLC

(* ------------------------------ bounds --------------------------------- *)

\* longest string handed to _get_name on its own
MaxLen == 4
\* longest definition / name handed to a registry
MaxDefLen == 2
\* number of registry calls in one history
MaxOps == 3
\* dependencies in conanbuildinfo.json
MaxDeps == 2
\* defines of all dependencies together
MaxDepDefines == 2
\* --define arguments
MaxDefines == 2
\* --undefine arguments
MaxUndefines == 1

(* ------------------------------ strings -------------------------------- *)

\* ord("="), the separator _get_name looks for
EQ == 61
\* ord("1") and ord("a"), as in the definition "a=1" of the tests: one code
\* point below "=" and one above
ONE == 49
LA == 97

\* Python's None; no str is equal to it (-1 is no code point)
None == <<-1>>

Chars == {ONE, EQ, LA}
RegChars == {ONE, EQ}

StrUpTo(alphabet, n) == UNION {[1..m -> alphabet] : m \in 0..n}

NameInputs == StrUpTo(Chars, MaxLen)
RegStrings == StrUpTo(RegChars, MaxDefLen)

\* the strings a run of main meets as defines and as --undefine names:
\* "1" and "1=" (two definitions of the macro named "1") and ""
MainStrings == {<<ONE>>, <<ONE, EQ>>, <<>>}

SeqsUpTo(S, n) == UNION {[1..m -> S] : m \in 0..n}

Range(s) == {s[x] : x \in DOMAIN s}

\* str.__lt__: code point by code point, a proper prefix is smaller
StrLess(a, b) ==
    \E p \in 1..Len(b) :
        /\ p - 1 <= Len(a)
        /\ \A m \in 1..(p - 1) : a[m] = b[m]
        /\ \/ p = Len(a) + 1
           \/ p <= Len(a) /\ a[p] < b[p]

\* str.find(ch): 0-based index of the first occurrence, -1 when there is none
RECURSIVE FindFrom(_, _, _)
FindFrom(s, ch, at) ==
    IF at > Len(s) THEN -1
    ELSE IF s[at] = ch THEN at - 1
    ELSE FindFrom(s, ch, at + 1)

Find(s, ch) == FindFrom(s, ch, 1)

\* s[:stop] with Python's treatment of a negative stop
SliceTo(s, stop) ==
    LET n == Len(s)
        e == IF stop < 0 THEN (IF n + stop < 0 THEN 0 ELSE n + stop)
             ELSE IF stop > n THEN n ELSE stop
    IN  SubSeq(s, 1, e)

(* ------------------------- _MacroDefinitions --------------------------- *)

\* mutant: the "not found" result of find is not tested
get_name_unchecked(definition) == SliceTo(definition, Find(definition, EQ))

get_name(definition) ==
    LET equal_index == Find(definition, EQ)
    IN  IF equal_index = -1 THEN definition
        ELSE SliceTo(definition, equal_index)

\* dict.get(key): the value stored under key, None when there is none
DictGet(d, key) ==
    LET hits == {x \in DOMAIN d : d[x].key = key}
    IN  IF hits = {} THEN None ELSE d[CHOOSE x \in hits : TRUE].value

\* d[key] = value: an existing key keeps its position, a new one goes last
DictSet(d, key, value) ==
    IF \E x \in DOMAIN d : d[x].key = key
    THEN [x \in DOMAIN d |->
            IF d[x].key = key THEN [key |-> key, value |-> value] ELSE d[x]]
    ELSE Append(d, [key |-> key, value |-> value])

\* del d[key]
DictDel(d, key) == SelectSeq(d, LAMBDA item : item.key # key)

\* list(d.values())
DictValues(d) == [x \in DOMAIN d |-> d[x].value]

\* mutant: the definition is stored under the whole definition string
add_keyed_by_definition(d, definition) ==
    [dict |-> DictSet(d, definition, definition),
     ret  |-> DictGet(d, definition)]

\* mutant: an existing definition is kept instead of overwritten
add_keep_old(d, definition) ==
    LET name == get_name(definition)
        old_value == DictGet(d, name)
    IN  [dict |-> IF old_value = None THEN DictSet(d, name, definition) ELSE d,
         ret  |-> old_value]

\* add: the dict after the call and the value returned
add(d, definition) ==
    LET name == get_name(definition)
        old_value == DictGet(d, name)
    IN  [dict |-> DictSet(d, name, definition), ret |-> old_value]

\* mutant: "if old_value:" instead of "if old_value is not None:"
remove_if_truthy(d, name) ==
    LET old_value == DictGet(d, name)
    IN  [dict |-> IF old_value # None /\ old_value # <<>>
                  THEN DictDel(d, name) ELSE d,
         ret  |-> old_value]

\* remove: the dict after the call and the value returned
remove(d, name) ==
    LET old_value == DictGet(d, name)
    IN  [dict |-> IF old_value # None THEN DictDel(d, name) ELSE d,
         ret  |-> old_value]

\* list.insert at the place list.sort gives x among the already sorted run:
\* after every element that is not greater than x (the sort is stable)
RECURSIVE SortedInsert(_, _)
SortedInsert(run, x) ==
    IF run = <<>> THEN <<x>>
    ELSE IF StrLess(x, Head(run)) THEN <<x>> \o run
    ELSE <<Head(run)>> \o SortedInsert(Tail(run), x)

\* list.sort() on strings
RECURSIVE Sort(_)
Sort(l) ==
    IF l = <<>> THEN <<>>
    ELSE SortedInsert(Sort(SubSeq(l, 1, Len(l) - 1)), l[Len(l)])

\* mutant: the list is returned in insertion order
as_list_unsorted(d) == DictValues(d)

RECURSIVE InsertByName(_, _)
InsertByName(run, x) ==
    IF run = <<>> THEN <<x>>
    ELSE IF StrLess(get_name(x), get_name(Head(run))) THEN <<x>> \o run
    ELSE <<Head(run)>> \o InsertByName(Tail(run), x)

RECURSIVE SortByName(_)
SortByName(l) ==
    IF l = <<>> THEN <<>>
    ELSE InsertByName(SortByName(SubSeq(l, 1, Len(l) - 1)), l[Len(l)])

\* mutant: sorted by macro name instead of by the whole definition
as_list_by_name(d) == SortByName(DictValues(d))

as_list(d) == Sort(DictValues(d))

(* ------------------------------- state --------------------------------- *)

VARIABLES
    definition,   \* the argument of a stand-alone _get_name call
    name,         \* what that call returned (None before the call)
    dict,         \* self._dict of a registry driven by arbitrary calls
    call,         \* the last call on that registry: op, arg, ret
    nops,         \* calls made on that registry
    todoA,        \* definitions still to add to registry A
    todoB,        \* definitions still to add to registry B
    regA,         \* self._dict of registry A
    regB,         \* self._dict of registry B
    info_data,    \* info_data["dependencies"]: per dependency, its "defines"
    args_define,  \* args.define
    args_undefine,\* args.undefine
    macro_defs,   \* macro_defs._dict in main
    pc,           \* where main is
    n_dep,        \* dependency defines main has passed to add
    n_def,        \* --define arguments main has passed to add
    n_undef,      \* --undefine arguments main has passed to remove
    error,        \* the exception main raised, NoError when it raised none
    properties,   \* <<defines>> once c_cpp_properties.json is written
    settings      \* settings.json is written

nameVars == <<definition, name>>
regVars == <<dict, call, nops>>
orderVars == <<todoA, todoB, regA, regB>>
mainVars == <<info_data, args_define, args_undefine, macro_defs, pc,
              n_dep, n_def, n_undef, error, properties, settings>>

vars == <<nameVars, regVars, orderVars, mainVars>>

NoCall == [op |-> "init", arg |-> None, ret |-> None]
NoError == [kind |-> "none"]

(* -------------------- _get_name on its own ----------------------------- *)

NameIdle == definition = <<>> /\ name = None
RegIdle == dict = <<>> /\ call = NoCall /\ nops = 0
OrderIdle == todoA = {} /\ todoB = {} /\ regA = <<>> /\ regB = <<>>
MainIdle ==
    /\ info_data = <<>> /\ args_define = <<>> /\ args_undefine = <<>>
    /\ macro_defs = <<>> /\ pc = "idle"
    /\ n_dep = 0 /\ n_def = 0 /\ n_undef = 0
    /\ error = NoError /\ properties = <<>> /\ settings = FALSE

InitName ==
    /\ definition \in NameInputs
    /\ name = None
    /\ RegIdle /\ OrderIdle /\ MainIdle

GetName ==
    /\ name = None
    /\ name' = get_name(definition)
    /\ UNCHANGED <<definition, regVars, orderVars, mainVars>>

NextName == GetName

SpecName == InitName /\ [][NextName]_vars

(* -------------------- a registry under arbitrary calls ----------------- *)

InitReg ==
    /\ NameIdle
    /\ dict = <<>>
    /\ call = NoCall
    /\ nops = 0
    /\ OrderIdle /\ MainIdle

Add(d) ==
    /\ nops < MaxOps
    /\ LET r == add(dict, d)
       IN  /\ dict' = r.dict
           /\ call' = [op |-> "add", arg |-> d, ret |-> r.ret]
    /\ nops' = nops + 1
    /\ UNCHANGED <<nameVars, orderVars, mainVars>>

Remove(n) ==
    /\ nops < MaxOps
    /\ LET r == remove(dict, n)
       IN  /\ dict' = r.dict
           /\ call' = [op |-> "remove", arg |-> n, ret |-> r.ret]
    /\ nops' = nops + 1
    /\ UNCHANGED <<nameVars, orderVars, mainVars>>

AsList ==
    /\ nops < MaxOps
    /\ call' = [op |-> "as_list", arg |-> None, ret |-> as_list(dict)]
    /\ nops' = nops + 1
    /\ UNCHANGED <<dict, nameVars, orderVars, mainVars>>

NextReg ==
    \/ \E d \in RegStrings : Add(d)
    \/ \E n \in RegStrings : Remove(n)
    \/ AsList

SpecReg == InitReg /\ [][NextReg]_vars

(* ------------- the same definitions added in two orders ---------------- *)

\* sets of definitions with pairwise distinct macro names
DistinctlyNamed ==
    {S \in SUBSET RegStrings :
        \A a, b \in S : a # b => get_name(a) # get_name(b)}

InitOrder ==
    /\ NameIdle /\ RegIdle /\ MainIdle
    /\ todoA \in DistinctlyNamed
    /\ todoB = todoA
    /\ regA = <<>>
    /\ regB = <<>>

AddA(d) ==
    /\ d \in todoA
    /\ regA' = add(regA, d).dict
    /\ todoA' = todoA \ {d}
    /\ UNCHANGED <<todoB, regB, nameVars, regVars, mainVars>>

AddB(d) ==
    /\ d \in todoB
    /\ regB' = add(regB, d).dict
    /\ todoB' = todoB \ {d}
    /\ UNCHANGED <<todoA, regA, nameVars, regVars, mainVars>>

NextOrder ==
    \/ \E d \in RegStrings : AddA(d)
    \/ \E d \in RegStrings : AddB(d)

SpecOrder == InitOrder /\ [][NextOrder]_vars

(* ------------------------------- main ---------------------------------- *)

RECURSIVE Flatten(_)
\* the defines in the order the two nested for loops visit them
Flatten(deps) ==
    IF deps = <<>> THEN <<>> ELSE Head(deps) \o Flatten(Tail(deps))

DepInputs ==
    {deps \in SeqsUpTo(SeqsUpTo(MainStrings, MaxDepDefines), MaxDeps) :
        Len(Flatten(deps)) <= MaxDepDefines}

\* mutant: the comparison is inverted
conflict_inverted(old_value, define) == old_value # None /\ old_value = define

\* mutant: any earlier definition of the name is reported
conflict_any_previous(old_value, define) == old_value # None

\* the test that makes main raise in the dependency loop
conflict(old_value, define) == old_value # None /\ old_value # define

\* the statement main executes next after a pass of loop p: the next pass of
\* the first loop, from p on, that has something left to visit
After(p) ==
    IF p = "merge" /\ n_dep' < Len(Flatten(info_data)) THEN "merge"
    ELSE IF p \in {"merge", "define"} /\ n_def' < Len(args_define) THEN "define"
    ELSE IF p \in {"merge", "define", "undefine"}
            /\ n_undef' < Len(args_undefine) THEN "undefine"
    ELSE "clang_format"

InitMain ==
    /\ NameIdle /\ RegIdle /\ OrderIdle
    /\ info_data \in DepInputs
    /\ args_define \in SeqsUpTo(MainStrings, MaxDefines)
    /\ args_undefine \in SeqsUpTo(MainStrings, MaxUndefines)
    /\ macro_defs = <<>>
    /\ n_dep = 0 /\ n_def = 0 /\ n_undef = 0
    /\ pc = IF Len(Flatten(info_data)) > 0 THEN "merge"
            ELSE IF Len(args_define) > 0 THEN "define"
            ELSE IF Len(args_undefine) > 0 THEN "undefine"
            ELSE "clang_format"
    /\ error = NoError
    /\ properties = <<>>
    /\ settings = FALSE

\* one pass of the body of the dependency loop
MergeDefine ==
    /\ pc = "merge"
    /\ LET define == Flatten(info_data)[n_dep + 1]
           r == add(macro_defs, define)
       IN  /\ macro_defs' = r.dict
           /\ n_dep' = n_dep + 1
           /\ UNCHANGED <<n_def, n_undef>>
           /\ IF conflict(r.ret, define)
              THEN /\ error' = [kind |-> "conflict", old |-> r.ret, new |-> define]
                   /\ pc' = "raised"
              ELSE /\ error' = error
                   /\ pc' = After("merge")
    /\ UNCHANGED <<info_data, args_define, args_undefine, properties, settings,
                   nameVars, regVars, orderVars>>

\* one pass of the body of the --define loop
UserDefine ==
    /\ pc = "define"
    /\ macro_defs' = add(macro_defs, args_define[n_def + 1]).dict
    /\ n_def' = n_def + 1
    /\ UNCHANGED <<n_dep, n_undef>>
    /\ pc' = After("define")
    /\ UNCHANGED <<info_data, args_define, args_undefine, error, properties,
                   settings, nameVars, regVars, orderVars>>

\* one pass of the body of the --undefine loop
UserUndefine ==
    /\ pc = "undefine"
    /\ macro_defs' = remove(macro_defs, args_undefine[n_undef + 1]).dict
    /\ n_undef' = n_undef + 1
    /\ UNCHANGED <<n_dep, n_def>>
    /\ pc' = After("undefine")
    /\ UNCHANGED <<info_data, args_define, args_undefine, error, properties,
                   settings, nameVars, regVars, orderVars>>

\* --clang-format was given, or _install_clang_format returns a path
ClangFormatFound ==
    /\ pc = "clang_format"
    /\ pc' = "write_properties"
    /\ UNCHANGED <<info_data, args_define, args_undefine, macro_defs, n_dep,
                   n_def, n_undef, error, properties, settings,
                   nameVars, regVars, orderVars>>

\* --clang-format was not given and _install_clang_format raises
ClangFormatFails ==
    /\ pc = "clang_format"
    /\ pc' = "raised"
    /\ error' = [kind |-> "clang_format"]
    /\ UNCHANGED <<info_data, args_define, args_undefine, macro_defs, n_dep,
                   n_def, n_undef, properties, settings,
                   nameVars, regVars, orderVars>>

\* c_cpp_properties.json is written with "defines": macro_defs.as_list()
WriteProperties ==
    /\ pc = "write_properties"
    /\ properties' = <<as_list(macro_defs)>>
    /\ pc' = "write_settings"
    /\ UNCHANGED <<info_data, args_define, args_undefine, macro_defs, n_dep,
                   n_def, n_undef, error, settings,
                   nameVars, regVars, orderVars>>

\* on Linux without gcc on the path: _find_gcc raises before the file is opened
GccMissing ==
    /\ pc = "write_properties"
    /\ pc' = "raised"
    /\ error' = [kind |-> "gcc"]
    /\ UNCHANGED <<info_data, args_define, args_undefine, macro_defs, n_dep,
                   n_def, n_undef, properties, settings,
                   nameVars, regVars, orderVars>>

\* settings.json is written
WriteSettings ==
    /\ pc = "write_settings"
    /\ settings' = TRUE
    /\ pc' = "done"
    /\ UNCHANGED <<info_data, args_define, args_undefine, macro_defs, n_dep,
                   n_def, n_undef, error, properties,
                   nameVars, regVars, orderVars>>

NextMain ==
    \/ MergeDefine
    \/ UserDefine
    \/ UserUndefine
    \/ ClangFormatFound
    \/ ClangFormatFails
    \/ WriteProperties
    \/ GccMissing
    \/ WriteSettings

SpecMain == InitMain /\ [][NextMain]_vars

(* ------------------- vocabulary of the properties ---------------------- *)

\* the macro name of a definition: what precedes its first "=", else all of it
NameOf(D) ==
    IF EQ \in Range(D)
    THEN LET first == CHOOSE p \in 1..Len(D) :
                          D[p] = EQ /\ \A q \in 1..(p - 1) : D[q] # EQ
         IN  SubSeq(D, 1, first - 1)
    ELSE D

\* a <= b in lexicographic order of code points
RECURSIVE LexLE(_, _)
LexLE(a, b) ==
    \/ a = <<>>
    \/ /\ b # <<>>
       /\ \/ a[1] < b[1]
          \/ a[1] = b[1] /\ LexLE(Tail(a), Tail(b))

\* the definitions a registry holds for macro name N
Live(d, N) == {d[x].value : x \in {y \in DOMAIN d : NameOf(d[y].value) = N}}

\* the definition a registry holds for N, None when it holds none
LiveDef(d, N) == IF Live(d, N) = {} THEN None ELSE CHOOSE v \in Live(d, N) : TRUE

Ascending(l) == \A x, y \in DOMAIN l : x < y => (LexLE(l[x], l[y]) /\ l[x] # l[y])

(* ------------------------------ C8 ------------------------------------- *)

\* C8: _get_name(D) is the part of D before its first "=" when D contains
\* "=", and D itself otherwise (the empty string included); further "="
\* characters after the first do not matter.
C8_GetNameIsPrefixBeforeFirstEq ==
    name # None =>
        IF \E p \in DOMAIN definition : definition[p] = EQ
        THEN \E p \in DOMAIN definition :
                /\ definition[p] = EQ
                /\ \A q \in 1..(p - 1) : definition[q] # EQ
                /\ Len(name) = p - 1
                /\ \A q \in 1..(p - 1) : name[q] = definition[q]
        ELSE name = definition

\* _get_name has returned for a definition "N=V" whose V contains "="
C8_Witness ==
    /\ name # None
    /\ Len(name) >= 1
    /\ Cardinality({p \in DOMAIN definition : definition[p] = EQ}) >= 2

(* ------------------------------ C4 ------------------------------------- *)

\* C4: as_list() returns exactly the stored definitions, in ascending
\* lexicographic order of the whole definition string; on a fresh registry
\* it returns the empty list.
C4_AsListSortedByFullString ==
    call.op = "as_list" =>
        /\ Ascending(call.ret)
        /\ Range(call.ret) = {dict[x].value : x \in DOMAIN dict}
        /\ Len(call.ret) = Len(dict)
        /\ (nops = 1 => call.ret = <<>>)

\* as_list() returned two definitions whose order by whole string is the
\* reverse of the order of their names and of their insertion
C4_Witness ==
    /\ call.op = "as_list"
    /\ Len(call.ret) = 2
    /\ call.ret # DictValues(dict)
    /\ LexLE(NameOf(call.ret[2]), NameOf(call.ret[1]))

(* ------------------------------ C5 ------------------------------------- *)

\* C5: a registry holds at most one definition per macro name: no two
\* definitions of as_list() have the same name, and every definition is
\* stored under the key that is its name.
C5_OneDefinitionPerName ==
    /\ \A x \in DOMAIN dict : dict[x].key = NameOf(dict[x].value)
    /\ \A x, y \in DOMAIN dict :
          x # y => NameOf(dict[x].value) # NameOf(dict[y].value)
    /\ LET l == as_list(dict)
       IN  \A x, y \in DOMAIN l : x # y => NameOf(l[x]) # NameOf(l[y])

\* a definition "N=V" replaced another definition of N while a second name
\* is stored
C5_Witness ==
    /\ call.op = "add"
    /\ call.ret # None
    /\ call.ret # call.arg
    /\ EQ \in Range(call.arg)
    /\ Len(dict) = 2

(* ------------------------------ C6 ------------------------------------- *)

AddStep == nops' = nops + 1 /\ call'.op = "add"

\* C6: add(D) returns the definition stored for N = name of D before the
\* call (also when it equals D), None when there was none; after the call
\* N has definition D and every other name has the definition it had.
C6_AddContract ==
    [][AddStep =>
         LET D == call'.arg
             N == NameOf(D)
         IN  /\ call'.ret = LiveDef(dict, N)
             /\ Live(dict', N) = {D}
             /\ \A M \in RegStrings \ {N} : Live(dict', M) = Live(dict, M)]_vars

\* add(D) returned D itself: D was already stored, next to another name
C6_Witness ==
    /\ call.op = "add"
    /\ call.ret = call.arg
    /\ Len(dict) = 2

\* add(D) returned a different, earlier definition of the same name
C6_WitnessOverwrite ==
    /\ call.op = "add"
    /\ call.ret # None
    /\ call.ret # call.arg

(* ------------------------------ C7 ------------------------------------- *)

RemoveStep == nops' = nops + 1 /\ call'.op = "remove"

\* C7: remove(N) of a name that has a definition returns it, leaves N
\* without one and every other name as it was; remove(N) of a name without
\* a definition returns None and leaves the registry, hence as_list(),
\* unchanged.
C7_RemoveContract ==
    [][RemoveStep =>
         LET N == call'.arg
         IN  IF Live(dict, N) # {}
             THEN /\ call'.ret = LiveDef(dict, N)
                  /\ Live(dict', N) = {}
                  /\ \A M \in RegStrings \ {N} : Live(dict', M) = Live(dict, M)
             ELSE /\ call'.ret = None
                  /\ dict' = dict
                  /\ as_list(dict') = as_list(dict)]_vars

\* remove(N) returned the definition of N and another name is still stored
C7_Witness ==
    /\ call.op = "remove"
    /\ call.ret # None
    /\ Len(dict) = 1

\* remove(N) found nothing in a registry that is not empty
C7_WitnessAbsent ==
    /\ call.op = "remove"
    /\ call.ret = None
    /\ Len(dict) >= 1

(* ------------------------------ C9 ------------------------------------- *)

\* C9: definitions with pairwise distinct names, added to two fresh
\* registries in any two orders, give the same as_list().
C9_InsertionOrderIrrelevant ==
    (todoA = {} /\ todoB = {}) => as_list(regA) = as_list(regB)

\* both registries are filled, in different orders
C9_Witness ==
    /\ todoA = {} /\ todoB = {}
    /\ Len(regA) >= 2
    /\ DictValues(regA) # DictValues(regB)

(* ------------------------------ C1 ------------------------------------- *)

ConflictRaised == error.kind = "conflict"

\* two different dependencies define one name differently
CrossDependencyConflict ==
    \E a, b \in DOMAIN info_data :
        /\ a # b
        /\ \E x \in DOMAIN info_data[a], y \in DOMAIN info_data[b] :
              /\ NameOf(info_data[a][x]) = NameOf(info_data[b][y])
              /\ info_data[a][x] # info_data[b][y]

\* two defines of the dependencies, of the same or of different
\* dependencies, define one name differently
DependencyConflict ==
    LET F == Flatten(info_data)
    IN  \E x, y \in DOMAIN F : NameOf(F[x]) = NameOf(F[y]) /\ F[x] # F[y]

\* C1 as stated: once the dependency loop is over, main has raised the
\* conflict error if and only if two different dependencies define one name
\* with different definition strings.
C1_AsStated == pc # "merge" => (ConflictRaised <=> CrossDependencyConflict)

\* C1 amended: once the dependency loop is over, main has raised the
\* conflict error if and only if the defines of the dependencies, whether of
\* different dependencies or of one, hold two different definition strings
\* of one name; identical strings for a name never raise.
C1_ConflictIffDifferentDefinitions ==
    pc # "merge" => (ConflictRaised <=> DependencyConflict)

\* the conflict error was raised for two defines of a single dependency
C1_Witness == ConflictRaised /\ ~CrossDependencyConflict

\* two dependencies gave the same definition and the loop ended without error
C1_WitnessIdentical ==
    /\ pc # "merge" /\ ~ConflictRaised
    /\ Len(info_data) = 2
    /\ Len(info_data[1]) = 1 /\ info_data[1] = info_data[2]

(* ------------------------------ C2 ------------------------------------- *)

\* the index of the last --define of macro name N
LastDefine(N) ==
    CHOOSE m \in DOMAIN args_define :
        /\ NameOf(args_define[m]) = N
        /\ \A q \in DOMAIN args_define : NameOf(args_define[q]) = N => q <= m

C2_FinalList ==
    properties # <<>> =>
        LET l == properties[1]
        IN  \A m \in DOMAIN args_define :
                LET N == NameOf(args_define[m])
                    at == {x \in DOMAIN l : NameOf(l[x]) = N}
                IN  N \notin Range(args_undefine) =>
                        /\ Cardinality(at) = 1
                        /\ \A x \in at : l[x] = args_define[LastDefine(N)]

\* C2: a pass of the --define loop never raises, and for every name N of a
\* --define that no --undefine names, the written as_list() holds exactly
\* one definition of N, the last --define given for N, whatever the
\* dependencies defined for N.
C2_UserDefineOverrides ==
    /\ []C2_FinalList
    /\ [][pc = "define" => pc' # "raised"]_vars

\* written: a name defined by a dependency and by two different --define
\* arguments, the last of which differs from the dependency's definition
C2_Witness ==
    /\ properties # <<>>
    /\ Len(args_define) >= 2
    /\ args_define[1] # args_define[2]
    /\ NameOf(args_define[1]) = NameOf(args_define[2])
    /\ NameOf(args_define[2]) \notin Range(args_undefine)
    /\ \E x \in DOMAIN Flatten(info_data) :
          /\ NameOf(Flatten(info_data)[x]) = NameOf(args_define[2])
          /\ Flatten(info_data)[x] # args_define[Len(args_define)]

(* ------------------------------ C3 ------------------------------------- *)

C3_FinalList ==
    properties # <<>> =>
        \A U \in Range(args_undefine) :
            \A x \in DOMAIN properties[1] : NameOf(properties[1][x]) # U

C3_UndefineStep ==
    pc = "undefine" =>
        /\ pc' # "raised"
        /\ Live(macro_defs, args_undefine[n_undef + 1]) = {}
              => macro_defs' = macro_defs

\* C3: the written as_list() holds no definition named by an --undefine,
\* whether it came from a dependency or from a --define; a pass of the
\* --undefine loop never raises, and changes nothing when the name has no
\* definition.
C3_UndefineRemoves ==
    /\ []C3_FinalList
    /\ [][C3_UndefineStep]_vars

\* written after an --undefine of a name that a dependency and a --define
\* both defined
C3_Witness ==
    /\ properties # <<>>
    /\ \E U \in Range(args_undefine) :
          /\ \E x \in DOMAIN args_define : NameOf(args_define[x]) = U
          /\ \E x \in DOMAIN Flatten(info_data) :
                NameOf(Flatten(info_data)[x]) = U

\* written after an --undefine of a name nothing defined, other names stored
C3_WitnessAbsent ==
    /\ properties # <<>>
    /\ Len(properties[1]) >= 1
    /\ \E U \in Range(args_undefine) :
          /\ \A x \in DOMAIN args_define : NameOf(args_define[x]) # U
          /\ \A x \in DOMAIN Flatten(info_data) :
                NameOf(Flatten(info_data)[x]) # U

(* ------------------------------ C10 ------------------------------------ *)

C10_AtRaise ==
    ConflictRaised =>
        LET F == Flatten(info_data)
        IN  /\ pc = "raised"
            /\ n_dep \in DOMAIN F
            /\ error.new = F[n_dep]
            /\ error.old # error.new
            /\ NameOf(error.old) = NameOf(error.new)
            /\ \E m \in 1..(n_dep - 1) : F[m] = error.old
            /\ \A y \in 1..(n_dep - 1) : \A x \in 1..(y - 1) :
                  NameOf(F[x]) = NameOf(F[y]) => F[x] = F[y]
            /\ n_def = 0 /\ n_undef = 0
            /\ properties = <<>> /\ settings = FALSE

====
